---- MODULE Spec2Model ----
(***************************************************************************)
(* Model of zaidan.DealerCache (src/zaidan/DealerCache.py): a stateless    *)
(* wrapper around a shared Redis store that holds order marks (quotes),    *)
(* unhedged positions and order book snapshots.                            *)
(*                                                                         *)
(* The state is the store.  Callers are anonymous threads/processes; every *)
(* method is one store request, except update_quote_status, which issues   *)
(* three requests (HEXISTS, HGET, HSET) and so has two intermediate        *)
(* positions in which other callers can act.                               *)
(***************************************************************************)
EXTENDS Integers, Sequences, FiniteSets, Bags, TLC

(***************************************************************************)
(* Bounds of the model.                                                    *)
(***************************************************************************)
\* number of update_quote_status calls that can be in flight at once
MaxInflight == 2
\* the clock runs from 0 to MaxTime seconds
MaxTime == 4
\* callers pass a max_age of 0 to MaxAge seconds
MaxAge == 3

(***************************************************************************)
(* Program constants.                                                      *)
(***************************************************************************)
\* status codes documented in set_quote
GENERATED == 0
SUBMITTED == 1
FILLED == 2
Statuses == {GENERATED, SUBMITTED, FILLED}

order_marks_key == "ORDER_MARKS"
unhedged_position_key == "UNHEDGED_POSITION"

(***************************************************************************)
(* Python values.  A structured value (nested dicts with number leaves) is *)
(* the set of its <<path, leaf>> pairs: {'status': 0, 'quote': {'price':   *)
(* 1}} is {<< <<"status">>, 0 >>, << <<"quote", "price">>, 1 >>}, and a    *)
(* bare number n is {<< <<>>, n >>}.                                       *)
(***************************************************************************)
\* `k in obj` for a dict obj
HasKey(obj, k) == \E e \in obj : Len(e[1]) > 0 /\ e[1][1] = k

\* obj[k] for a dict obj that has k
GetItem(obj, k) ==
    { <<Tail(e[1]), e[2]>> : e \in { x \in obj : Len(x[1]) > 0 /\ x[1][1] = k } }

\* obj[k] = n (n a number), the dict after the assignment
SetItem(obj, k, n) ==
    { e \in obj : ~(Len(e[1]) > 0 /\ e[1][1] = k) } \cup { << <<k>>, n >> }

\* {'status': status, 'quote': order_mark}
StatusQuoteDict(status, order_mark) ==
    { << <<"status">>, status >> }
        \cup { << <<"quote">> \o e[1], e[2] >> : e \in order_mark }

\* the number held by a bare-number value
NumberOf(obj) == (CHOOSE e \in obj : e[1] = <<>>)[2]

(***************************************************************************)
(* Inputs: the quote ids and order mark payloads callers pass.             *)
(***************************************************************************)
\* a quote as the quote producer builds it
plainMark == { << <<"price">>, 1 >>, << <<"expiration">>, 2 >> }
\* a payload that the caller has already wrapped with a status of its own
wrappedMark == StatusQuoteDict(GENERATED, plainMark)
OrderMarks == {plainMark, wrappedMark}

\* a payload the data model calls valid: it carries an expiration
IsValidOrderMark(m) == HasKey(m, "expiration")

WellFormedUuids == {"123e4567-e89b-12d3-a456-426614174000"}
QuoteIds == WellFormedUuids \cup {"not-a-uuid"}

(***************************************************************************)
(* zaidan.utils (imported at line 6, not part of the sources at hand).     *)
(***************************************************************************)
is_valid_uuid(s) == s \in WellFormedUuids

\* bytes are a tagged value, distinct from the value they encode
encode_to_bytes(obj) == <<"bytes", obj>>
decode_from_bytes(raw) == raw[2]

\* Python's None, as the store client returns it for a missing key or field
None == <<"None", {}>>
\* what decode_from_bytes(None) raises
DecodeNoneError == "TypeError"

(***************************************************************************)
(* The Redis client: a hash is a function from its present fields to       *)
(* their values.                                                           *)
(***************************************************************************)
EmptyHash == [f \in {} |-> None]
hexists(h, field) == field \in DOMAIN h
hget(h, field) == IF field \in DOMAIN h THEN h[field] ELSE None
\* GET on the string keys
get(db, key) == IF key \in DOMAIN db THEN db[key] ELSE None
IsNone(v) == v[1] = "None"
hset(h, field, v) ==
    [f \in DOMAIN h \cup {field} |-> IF f = field THEN v ELSE h[f]]
hdel(h, field) == [f \in DOMAIN h \ {field} |-> h[f]]

VARIABLES
    marks,      \* the ORDER_MARKS hash: quote id -> encoded record
    positions,  \* the UNHEDGED_POSITION hash: symbol -> stringified float
    books,      \* the string keys: order book payloads and their timestamps
    now,        \* the clock, time()
    inflight,   \* bag of update_quote_status calls between two store requests
    last        \* the call that returned last: [op, args, outcome, value]

vars == <<marks, positions, books, now, inflight, last>>

\* a call returning normally with value v, or raising error, after issuing
\* `requests` requests to the store
Returned(op, args, requests, v) ==
    [op |-> op, args |-> args, requests |-> requests, outcome |-> "ok",
     value |-> v]
Raised(op, args, requests, error) ==
    [op |-> op, args |-> args, requests |-> requests, outcome |-> error,
     value |-> {}]

(***************************************************************************)
(* set_quote                                                               *)
(***************************************************************************)
\* the bytes set_quote writes under quote_id
set_quote_bytes(order_mark, status) ==
    LET data == StatusQuoteDict(status, order_mark)
        mark_compressed == encode_to_bytes(order_mark)
    IN  mark_compressed

set_quote(quote_id, order_mark, status) ==
    /\ marks' = hset(marks, quote_id, set_quote_bytes(order_mark, status))
    /\ last' = Returned("set_quote",
                        [quote_id |-> quote_id, order_mark |-> order_mark,
                         status |-> status], 1, {})
    /\ UNCHANGED <<positions, books, now, inflight>>

(***************************************************************************)
(* update_quote_status: HEXISTS, then HGET and the local work on the       *)
(* decoded record, then HSET.                                              *)
(***************************************************************************)
UqsCall(at, quote_id, new_status, order_mark) ==
    [at |-> at, quote_id |-> quote_id, new_status |-> new_status,
     order_mark |-> order_mark]

UqsArgs(c) == [quote_id |-> c.quote_id, new_status |-> c.new_status]

\* update_quote_status without its existence check
update_quote_status_unchecked(quote_id, new_status) ==
    /\ BagCardinality(inflight) < MaxInflight
    /\ inflight' = inflight (+)
           SetToBag({UqsCall("hget", quote_id, new_status, {})})
    /\ UNCHANGED <<marks, positions, books, now, last>>

\* lines 130-131: the existence check
update_quote_status_hexists(quote_id, new_status) ==
    /\ BagCardinality(inflight) < MaxInflight
    /\ IF ~hexists(marks, quote_id)
       THEN /\ last' = Raised("update_quote_status",
                              [quote_id |-> quote_id, new_status |-> new_status],
                              1, "NotFoundError")
            /\ UNCHANGED inflight
       ELSE /\ inflight' = inflight (+)
                    SetToBag({UqsCall("hget", quote_id, new_status, {})})
            /\ UNCHANGED last
    /\ UNCHANGED <<marks, positions, books, now>>

\* lines 133-137: the read, the decoding and the status check
update_quote_status_hget(c) ==
    /\ BagIn(c, inflight)
    /\ c.at = "hget"
    /\ LET order_mark_raw == hget(marks, c.quote_id)
           rest == inflight (-) SetToBag({c})
       IN  IF IsNone(order_mark_raw)
           THEN /\ last' = Raised("update_quote_status", UqsArgs(c), 2,
                                  DecodeNoneError)
                /\ inflight' = rest
           ELSE LET order_mark == decode_from_bytes(order_mark_raw)
                IN  IF ~HasKey(order_mark, "status")
                    THEN /\ last' = Raised("update_quote_status", UqsArgs(c), 2,
                                           "DealerCacheError")
                         /\ inflight' = rest
                    ELSE /\ inflight' = rest (+) SetToBag(
                               {UqsCall("hset", c.quote_id, c.new_status, order_mark)})
                         /\ UNCHANGED last
    /\ UNCHANGED <<marks, positions, books, now>>

\* lines 139-141: the write-back of the record that was read
update_quote_status_hset(c) ==
    /\ BagIn(c, inflight)
    /\ c.at = "hset"
    /\ LET new_mark_raw ==
               encode_to_bytes(SetItem(c.order_mark, "status", c.new_status))
       IN  marks' = hset(marks, c.quote_id, new_mark_raw)
    /\ inflight' = inflight (-) SetToBag({c})
    /\ last' = Returned("update_quote_status", UqsArgs(c), 3, {})
    /\ UNCHANGED <<positions, books, now>>

(***************************************************************************)
(* get_quote                                                               *)
(***************************************************************************)
\* get_quote decoding whatever HGET returned, None included
get_quote_result_unchecked(h, quote_id) ==
    LET args == [quote_id |-> quote_id]
    IN  IF ~is_valid_uuid(quote_id)
        THEN Raised("get_quote", args, 0, "DealerCacheError")
        ELSE LET raw_order_mark == hget(h, quote_id)
             IN  IF IsNone(raw_order_mark)
                 THEN Raised("get_quote", args, 1, DecodeNoneError)
                 ELSE LET order_mark == decode_from_bytes(raw_order_mark)
                      IN  IF ~HasKey(order_mark, "quote")
                          THEN Raised("get_quote", args, 1, "KeyError")
                          ELSE Returned("get_quote", args, 1,
                                        GetItem(order_mark, "quote"))

\* get_quote without the validation of the quote id
get_quote_result_unvalidated(h, quote_id) ==
    LET args == [quote_id |-> quote_id]
        raw_order_mark == hget(h, quote_id)
    IN  IF IsNone(raw_order_mark)
        THEN Raised("get_quote", args, 1, "NotFoundError")
        ELSE LET order_mark == decode_from_bytes(raw_order_mark)
             IN  IF ~HasKey(order_mark, "quote")
                 THEN Raised("get_quote", args, 1, "KeyError")
                 ELSE Returned("get_quote", args, 1, GetItem(order_mark, "quote"))

get_quote_result(h, quote_id) ==
    LET args == [quote_id |-> quote_id]
    IN  IF ~is_valid_uuid(quote_id)
        THEN Raised("get_quote", args, 0, "DealerCacheError")
        ELSE LET raw_order_mark == hget(h, quote_id)
             IN  IF IsNone(raw_order_mark)
                 THEN Raised("get_quote", args, 1, "NotFoundError")
                 ELSE LET order_mark == decode_from_bytes(raw_order_mark)
                      IN  IF ~HasKey(order_mark, "quote")
                          THEN Raised("get_quote", args, 1, "KeyError")
                          ELSE Returned("get_quote", args, 1,
                                        GetItem(order_mark, "quote"))

get_quote(quote_id) ==
    /\ last' = get_quote_result(marks, quote_id)
    /\ UNCHANGED <<marks, positions, books, now, inflight>>

(***************************************************************************)
(* remove_order_mark                                                       *)
(***************************************************************************)
remove_order_mark(quote_id) ==
    /\ marks' = hdel(marks, quote_id)
    /\ last' = Returned("remove_order_mark", [quote_id |-> quote_id], 1, {})
    /\ UNCHANGED <<positions, books, now, inflight>>

(***************************************************************************)
(* get_all_order_marks: `int(time)` takes the function time, not           *)
(* call_time, and the result is built in `quotes`, a name never bound.     *)
(***************************************************************************)
get_all_order_marks_result(h, only_valid) ==
    LET args == [only_valid |-> only_valid]
    IN  IF DOMAIN h = {}
        THEN \* the loop body never runs; `return quotes`
             Raised("get_all_order_marks", args, 1, "NameError")
        ELSE IF only_valid
             THEN \* first iteration: int(time)
                  Raised("get_all_order_marks", args, 1, "TypeError")
             ELSE \* first iteration: quotes[mark_id] = decoded_mark
                  Raised("get_all_order_marks", args, 1, "NameError")

get_all_order_marks(only_valid) ==
    /\ last' = get_all_order_marks_result(marks, only_valid)
    /\ UNCHANGED <<marks, positions, books, now, inflight>>

(***************************************************************************)
(* Strings are sequences of one-character strings, so that split, upper,   *)
(* lower, str and float are computed as Python computes them.              *)
(***************************************************************************)
LowerLetters == <<"a", "b", "k", "u">>
UpperLetters == <<"A", "B", "K", "U">>

\* str.upper and str.lower
upper(str) ==
    [i \in 1..Len(str) |->
        IF \E j \in 1..Len(LowerLetters) : LowerLetters[j] = str[i]
        THEN UpperLetters[CHOOSE j \in 1..Len(LowerLetters) : LowerLetters[j] = str[i]]
        ELSE str[i]]
lower(str) ==
    [i \in 1..Len(str) |->
        IF \E j \in 1..Len(UpperLetters) : UpperLetters[j] = str[i]
        THEN LowerLetters[CHOOSE j \in 1..Len(UpperLetters) : UpperLetters[j] = str[i]]
        ELSE str[i]]

\* str.split(sep): the list of the pieces between the separators
RECURSIVE split(_, _)
split(str, sep) ==
    IF \A i \in 1..Len(str) : str[i] # sep
    THEN <<str>>
    ELSE LET i == CHOOSE k \in 1..Len(str) :
                      str[k] = sep /\ \A j \in 1..(k - 1) : str[j] # sep
         IN  <<SubSeq(str, 1, i - 1)>> \o split(SubSeq(str, i + 1, Len(str)), sep)

DecimalDigits == <<"0", "1", "2", "3", "4", "5", "6", "7", "8", "9">>

\* the decimal digits of a natural number
RECURSIVE digits(_)
digits(n) ==
    IF n < 10 THEN <<DecimalDigits[n + 1]>>
    ELSE digits(n \div 10) \o <<DecimalDigits[(n % 10) + 1]>>

\* the number written by a string of decimal digits
RECURSIVE number(_)
number(str) ==
    IF str = <<>> THEN 0
    ELSE 10 * number(SubSeq(str, 1, Len(str) - 1))
           + (CHOOSE d \in 0..9 : DecimalDigits[d + 1] = str[Len(str)])

\* str(x) of a float holding a whole number of seconds: "3.0"
float_str(n) == digits(n) \o <<".", "0">>

\* float(s) of such a string
float(str) ==
    LET dot == CHOOSE k \in 1..Len(str) : str[k] = "."
    IN  number(SubSeq(str, 1, dot - 1))

(***************************************************************************)
(* get_order_book                                                          *)
(***************************************************************************)
\* f'{symbol.upper()}_{exchange.lower()}_{side.lower()}'
base_key(exchange, symbol, side) ==
    upper(symbol) \o <<"_">> \o lower(exchange) \o <<"_">> \o lower(side)

\* f'{base_key}_timestamp'
timestamp_key(exchange, symbol, side) ==
    base_key(exchange, symbol, side)
        \o <<"_", "t", "i", "m", "e", "s", "t", "a", "m", "p">>

\* the staleness test of line 95 with `>` for `>=`
is_out_of_date_strict(max_age, book_age) == max_age > 0 /\ book_age > max_age

\* line 95
is_out_of_date(max_age, book_age) == max_age > 0 /\ book_age >= max_age

get_order_book_result(db, call_time, exchange, symbol, side, max_age) ==
    LET args == [exchange |-> exchange, symbol |-> symbol, side |-> side,
                 max_age |-> max_age, call_time |-> call_time]
        symbols == split(symbol, "/")
    IN  IF Len(symbols) # 2
        THEN Raised("get_order_book", args, 0, "ValueError")
        ELSE LET book_timestamp == get(db, timestamp_key(exchange, symbol, side))
             IN  IF IsNone(book_timestamp)
                 THEN \* float(None)
                      Raised("get_order_book", args, 1, "TypeError")
                 ELSE LET book_age == call_time - float(book_timestamp[2])
                      IN  IF is_out_of_date(max_age, book_age)
                          THEN [Raised("get_order_book", args, 1, "OutOfDateError")
                                   EXCEPT !.value = {<< <<>>, book_age - max_age >>}]
                          ELSE LET raw_book == get(db, base_key(exchange, symbol, side))
                               IN  IF IsNone(raw_book)
                                   THEN Raised("get_order_book", args, 2,
                                               DecodeNoneError)
                                   ELSE Returned("get_order_book", args, 2,
                                                 decode_from_bytes(raw_book))

get_order_book(exchange, symbol, side, max_age) ==
    /\ last' = get_order_book_result(books, now, exchange, symbol, side, max_age)
    /\ UNCHANGED <<marks, positions, books, now, inflight>>

\* the clock advances
Tick ==
    /\ now < MaxTime
    /\ now' = now + 1
    /\ UNCHANGED <<marks, positions, books, inflight, last>>

(***************************************************************************)
(* get_quote_ids                                                           *)
(***************************************************************************)
get_quote_ids_result(h) == Returned("get_quote_ids", [none |-> {}], 1, DOMAIN h)

get_quote_ids ==
    /\ last' = get_quote_ids_result(marks)
    /\ UNCHANGED <<marks, positions, books, now, inflight>>

(***************************************************************************)
(* set_unhedged_position and get_unhedged_position.  The setter names      *)
(* self.unhedged_positions_key, an attribute the class does not have; the  *)
(* getter tests the upper-cased symbol and reads the symbol as passed.     *)
(***************************************************************************)
set_unhedged_position(symbol, size) ==
    /\ last' = LET size_val == float_str(size)
               IN  \* evaluating the arguments of self.db.hset raises
                   Raised("set_unhedged_position",
                          [symbol |-> symbol, size |-> size], 0, "AttributeError")
    /\ UNCHANGED <<marks, positions, books, now, inflight>>

\* get_unhedged_position reading without the existence test
get_unhedged_position_unchecked(h, symbol) ==
    LET args == [symbol |-> symbol]
        str_val == hget(h, symbol)
    IN  IF IsNone(str_val)
        THEN Raised("get_unhedged_position", args, 1, "TypeError")
        ELSE Returned("get_unhedged_position", args, 1,
                      {<< <<>>, float(str_val[2]) >>})

get_unhedged_position_result(h, symbol) ==
    LET args == [symbol |-> symbol]
    IN  IF ~hexists(h, upper(symbol))
        THEN Returned("get_unhedged_position", args, 1, {<< <<>>, 0 >>})
        ELSE LET str_val == hget(h, symbol)
             IN  IF IsNone(str_val)
                 THEN \* float(None)
                      Raised("get_unhedged_position", args, 2, "TypeError")
                 ELSE Returned("get_unhedged_position", args, 2,
                               {<< <<>>, float(str_val[2]) >>})

get_unhedged_position(symbol) ==
    /\ last' = get_unhedged_position_result(positions, symbol)
    /\ UNCHANGED <<marks, positions, books, now, inflight>>

\* what callers pass to the unhedged position methods
PositionSymbols == { <<"b", "/", "u">>, <<"B", "/", "U">> }
PositionSizes == {2}

Init ==
    /\ marks = EmptyHash
    /\ positions = EmptyHash
    /\ books = EmptyHash
    /\ now = 0
    /\ inflight = EmptyBag
    /\ last = Raised("none", [quote_id |-> ""], 0, "none")

Next ==
    \/ \E q \in QuoteIds, m \in OrderMarks, s \in Statuses : set_quote(q, m, s)
    \/ \E q \in QuoteIds, s \in Statuses \ {GENERATED} :
           update_quote_status_hexists(q, s)
    \/ \E c \in BagToSet(inflight) : update_quote_status_hget(c)
    \/ \E c \in BagToSet(inflight) : update_quote_status_hset(c)
    \/ \E q \in QuoteIds : get_quote(q)
    \/ \E q \in QuoteIds : remove_order_mark(q)
    \/ \E v \in BOOLEAN : get_all_order_marks(v)
    \/ get_quote_ids
    \/ \E sy \in PositionSymbols, x \in PositionSizes : set_unhedged_position(sy, x)
    \/ \E sy \in PositionSymbols : get_unhedged_position(sy)

Spec == Init /\ [][Next]_vars

(***************************************************************************)
(* The order books are written by the exchange feeds, not by DealerCache:  *)
(* the order book specification starts from a store in which some markets  *)
(* have a snapshot (payload and timestamp) and the others have none.       *)
(***************************************************************************)
\* the markets the feeds publish: <<exchange, symbol, side>>
Markets == { <<<<"k">>, <<"B", "/", "U">>, <<"a">>>> }

\* the book the feed publishes for a market
BookOf(m) == { << <<"0", "price">>, 2 >>, << <<"0", "size">>, 1 >> }

\* the store in which market m has a snapshot of time ts[m], none if ts[m] < 0
SnapshotStore(ts) ==
    LET present == { m \in Markets : ts[m] >= 0 }
        keys == { base_key(m[1], m[2], m[3]) : m \in present }
                   \cup { timestamp_key(m[1], m[2], m[3]) : m \in present }
    IN  [k \in keys |->
            IF \E m \in present : k = base_key(m[1], m[2], m[3])
            THEN encode_to_bytes(
                     BookOf(CHOOSE m \in present : k = base_key(m[1], m[2], m[3])))
            ELSE <<"str", float_str(
                     ts[CHOOSE m \in present : k = timestamp_key(m[1], m[2], m[3])])>>]

\* what callers pass to get_order_book
Exchanges == {<<"K">>}
Symbols == { <<"b", "/", "u">>, <<"B", "/", "U">>, <<"b", "u">>,
             <<"b", "/", "u", "/", "a">>, <<"b", "/">>, <<"/", "u">> }
Sides == {<<"A">>, <<"b">>}
MaxAges == 0..MaxAge

BookInit ==
    /\ marks = EmptyHash
    /\ positions = EmptyHash
    /\ books \in { SnapshotStore(ts) : ts \in [Markets -> -1..MaxTime] }
    /\ now = 0
    /\ inflight = EmptyBag
    /\ last = Raised("none", [quote_id |-> ""], 0, "none")

BookNext ==
    \/ \E e \in Exchanges, sy \in Symbols, sd \in Sides, a \in MaxAges :
           get_order_book(e, sy, sd, a)
    \/ Tick

BookSpec == BookInit /\ [][BookNext]_vars

(***************************************************************************)
(* Properties of get_order_book.                                           *)
(***************************************************************************)
\* the snapshot of the market the last get_order_book call asked for exists
SnapshotExists ==
    /\ timestamp_key(last.args.exchange, last.args.symbol, last.args.side)
          \in DOMAIN books
    /\ base_key(last.args.exchange, last.args.symbol, last.args.side)
          \in DOMAIN books

\* the age of that snapshot at the time of the call
SnapshotAge ==
    last.args.call_time
      - float(books[timestamp_key(last.args.exchange, last.args.symbol,
                                  last.args.side)][2])

\* C6: for a snapshot that exists, get_order_book with max_age > 0 raises
\* OutOfDateError exactly when the age is at least max_age and returns the
\* decoded book otherwise; with max_age = 0 it returns the book at any age.
C6_StalenessBoundary ==
    ( last.op = "get_order_book" /\ SnapshotExists )
    => LET stale == last.args.max_age > 0 /\ SnapshotAge >= last.args.max_age
       IN  /\ stale => last.outcome = "OutOfDateError"
           /\ ~stale =>
                 /\ last.outcome = "ok"
                 /\ last.value = decode_from_bytes(
                        books[base_key(last.args.exchange, last.args.symbol,
                                       last.args.side)])

\* a call at the boundary: the snapshot is exactly max_age old
C6_Witness ==
    /\ last.op = "get_order_book"
    /\ SnapshotExists
    /\ last.args.max_age > 0
    /\ SnapshotAge = last.args.max_age
    /\ last.outcome = "OutOfDateError"

\* the symbol is two non-empty tickers separated by one "/"
IsBaseQuoteSymbol(symbol) ==
    /\ Cardinality({ i \in 1..Len(symbol) : symbol[i] = "/" }) = 1
    /\ symbol[1] # "/"
    /\ symbol[Len(symbol)] # "/"

\* C7: get_order_book for a market whose timestamp key is absent raises
\* NotFoundError, whatever max_age is, and returns no payload.
C7_BookNotFound ==
    ( /\ last.op = "get_order_book"
      /\ IsBaseQuoteSymbol(last.args.symbol)
      /\ timestamp_key(last.args.exchange, last.args.symbol, last.args.side)
            \notin DOMAIN books )
    => ( last.outcome = "NotFoundError" /\ last.value = {} )

\* C8: get_order_book raises the invalid-input error (ValueError), before any
\* request to the store, for every symbol that is not two non-empty tickers
\* separated by one "/".
C8_SymbolValidation ==
    ( last.op = "get_order_book" /\ ~IsBaseQuoteSymbol(last.args.symbol) )
    => ( last.outcome = "ValueError" /\ last.requests = 0 )

(***************************************************************************)
(* Properties of the order marks table.                                    *)
(***************************************************************************)
\* the step in which the in-flight call c returns or raises
Completes(c) ==
    /\ BagIn(c, inflight)
    /\ inflight' = inflight (-) SetToBag({c})
    /\ last'.op = "update_quote_status"
    /\ last'.args = UqsArgs(c)

\* the status held by the record stored under quote_id, -1 if it holds none
StoredStatus(h, quote_id) ==
    LET record == decode_from_bytes(hget(h, quote_id))
    IN  IF hexists(h, quote_id) /\ HasKey(record, "status")
        THEN NumberOf(GetItem(record, "status"))
        ELSE -1

\* C1: set_quote(id, m) of a valid payload under a well-formed id, followed
\* directly by get_quote(id), returns a payload equal to m.
C1_RoundTrip ==
    [][ ( /\ last.op = "set_quote"
          /\ IsValidOrderMark(last.args.order_mark)
          /\ is_valid_uuid(last.args.quote_id)
          /\ last'.op = "get_quote"
          /\ last'.args.quote_id = last.args.quote_id )
        => ( /\ last'.outcome = "ok"
             /\ last'.value = last.args.order_mark ) ]_vars

\* C2: when an update_quote_status call on a stored quote id has returned and
\* the next call to return is another update_quote_status on the same id with
\* a different target status (in flight meanwhile, or started afterwards),
\* both return without error and the stored record's status is one of the
\* two targets.
C2_ConcurrentUpdates ==
    [][ \A c \in BagToSet(inflight) :
          ( /\ last.op = "update_quote_status"
            /\ last.outcome # "NotFoundError"
            /\ last.args.quote_id = c.quote_id
            /\ last.args.new_status # c.new_status
            /\ hexists(marks, c.quote_id)
            /\ Completes(c) )
          => ( /\ last.outcome = "ok"
               /\ last'.outcome = "ok"
               /\ StoredStatus(marks', c.quote_id)
                      \in {last.args.new_status, c.new_status} ) ]_vars

\* C3: when update_quote_status writes its record back, the record stored
\* under the quote id is still the one it read: no write by another caller
\* has taken effect in between, to be overwritten by the stale record.
C3_NoLostUpdate ==
    [][ \A c \in BagToSet(inflight) :
          ( c.at = "hset" /\ Completes(c) )
          => hget(marks, c.quote_id) = encode_to_bytes(c.order_mark) ]_vars

\* C4: when set_quote(id, m) has returned and the next call to return is an
\* update_quote_status(id, SUBMITTED) that read the record set_quote left,
\* the update returns without error and get_all_order_marks(only_valid=false)
\* then returns a mapping in which id has status SUBMITTED.
C4_StatusObservable ==
    [][ \A c \in BagToSet(inflight) :
          ( /\ last.op = "set_quote"
            /\ last.args.quote_id = c.quote_id
            /\ c.new_status = SUBMITTED
            /\ c.at = "hset" =>
                   hget(marks, c.quote_id) = encode_to_bytes(c.order_mark)
            /\ Completes(c) )
          => ( /\ last'.outcome = "ok"
               /\ LET all == get_all_order_marks_result(marks', FALSE)
                  IN  /\ all.outcome = "ok"
                      /\ << <<c.quote_id, "status">>, SUBMITTED >> \in all.value ) ]_vars

\* C5: every record stored in the order marks table has a status field.
C5_RecordsHaveStatus ==
    \A q \in DOMAIN marks : HasKey(decode_from_bytes(marks[q]), "status")

\* C9: update_quote_status on a quote id absent from the order marks table
\* raises NotFoundError and leaves the whole store unchanged.
C9_UpdateUnknownId ==
    [][ \A q \in QuoteIds, s \in Statuses :
          ( ~hexists(marks, q) /\ update_quote_status_hexists(q, s) )
          => ( /\ last'.op = "update_quote_status"
               /\ last'.args.quote_id = q
               /\ last'.outcome = "NotFoundError"
               /\ marks' = marks
               /\ positions' = positions
               /\ books' = books ) ]_vars

C9_Witness ==
    /\ last.op = "update_quote_status"
    /\ last.outcome = "NotFoundError"
    /\ ~hexists(marks, last.args.quote_id)
    /\ DOMAIN marks # {}

\* C10: get_quote on a well-formed quote id that has no record in the order
\* marks table raises NotFoundError.
C10_GetQuoteNotFound ==
    ( /\ last.op = "get_quote"
      /\ is_valid_uuid(last.args.quote_id)
      /\ ~hexists(marks, last.args.quote_id) )
    => last.outcome = "NotFoundError"

C10_Witness ==
    /\ last.op = "get_quote"
    /\ is_valid_uuid(last.args.quote_id)
    /\ ~hexists(marks, last.args.quote_id)
    /\ last.outcome = "NotFoundError"

\* C11: get_quote with a quote id that is not a well-formed UUID raises the
\* invalid-input error (DealerCacheError) without any request to the store,
\* whether or not a record is stored under that string.
C11_GetQuoteInvalidId ==
    ( last.op = "get_quote" /\ ~is_valid_uuid(last.args.quote_id) )
    => ( last.outcome = "DealerCacheError" /\ last.requests = 0 )

\* the malformed id is rejected although a record is stored under it
C11_Witness ==
    /\ last.op = "get_quote"
    /\ ~is_valid_uuid(last.args.quote_id)
    /\ hexists(marks, last.args.quote_id)
    /\ last.outcome = "DealerCacheError"

\* C12: remove_order_mark(id) returns without error whether or not id is
\* present; and once it has returned, as long as the next call to return is
\* not a set_quote(id), id is not among the keys get_quote_ids returns.
C12_IdempotentDeletion ==
    [][ /\ \A q \in QuoteIds :
             remove_order_mark(q)
             => ( last'.outcome = "ok"
                  /\ q \notin get_quote_ids_result(marks').value )
        /\ ( /\ last.op = "remove_order_mark"
             /\ ~( last'.op = "set_quote"
                   /\ last'.args.quote_id = last.args.quote_id ) )
           => ( /\ get_quote_ids_result(marks').outcome = "ok"
                /\ last.args.quote_id \notin get_quote_ids_result(marks').value )
      ]_vars

\* C13: set_unhedged_position(s, x) returns, and a get_unhedged_position(s')
\* that returns next, for s' equal to s up to letter case, returns x.
C13_PositionRoundTrip ==
    [][ ( /\ last.op = "set_unhedged_position"
          /\ last'.op = "get_unhedged_position"
          /\ upper(last'.args.symbol) = upper(last.args.symbol) )
        => ( /\ last.outcome = "ok"
             /\ last'.outcome = "ok"
             /\ last'.value = {<< <<>>, last.args.size >>} ) ]_vars

\* C14: get_unhedged_position(symbol) returns 0.0, without error, for every
\* symbol, in any letter case, for which no unhedged position is stored.
C14_DefaultPosition ==
    ( /\ last.op = "get_unhedged_position"
      /\ ~hexists(positions, upper(last.args.symbol)) )
    => ( last.outcome = "ok" /\ last.value = {<< <<>>, 0 >>} )

C14_Witness ==
    /\ last.op = "get_unhedged_position"
    /\ last.args.symbol # upper(last.args.symbol)
    /\ ~hexists(positions, upper(last.args.symbol))
    /\ last.outcome = "ok"

\* the expiration of the quote of a stored record, -1 if it holds none
QuoteExpiration(record) ==
    LET expiration == GetItem(GetItem(record, "quote"), "expiration")
    IN  IF \E e \in expiration : e[1] = <<>> THEN NumberOf(expiration) ELSE -1

\* the mapping quote id -> record of the records of h that are to be returned
OrderMarksMapping(h, only_valid, time) ==
    UNION { { << <<q>> \o e[1], e[2] >> : e \in decode_from_bytes(h[q]) } :
            q \in { k \in DOMAIN h :
                      ~only_valid \/ QuoteExpiration(decode_from_bytes(h[k])) > time } }

\* C15: get_all_order_marks returns the mapping, keyed by quote id, of every
\* stored record (only_valid = false), or of the stored records whose quote
\* expiration is strictly after the current time (only_valid = true).
C15_AllOrderMarks ==
    last.op = "get_all_order_marks"
    => ( /\ last.outcome = "ok"
         /\ last.value = OrderMarksMapping(marks, last.args.only_valid, now) )

\* C16: once set_quote(id, m, s) has returned, the record stored under id has
\* status s (GENERATED when the caller passes none).
C16_StoredStatus ==
    last.op = "set_quote"
    => StoredStatus(marks, last.args.quote_id) = last.args.status

\* C17: the write of a successful update_quote_status(id, s) leaves what
\* get_quote(id) returns as it was, and leaves the records of the other quote
\* ids, the unhedged positions and the order book keys unchanged.
C17_UpdateFrame ==
    [][ \A c \in BagToSet(inflight) :
          ( c.at = "hset" /\ Completes(c) )
          => ( /\ get_quote_result(marks', c.quote_id)
                     = get_quote_result(marks, c.quote_id)
               /\ \A q \in QuoteIds \ {c.quote_id} : hget(marks', q) = hget(marks, q)
               /\ positions' = positions
               /\ books' = books ) ]_vars

\* C18: when remove_order_mark(id) has returned while an update_quote_status
\* on id was in flight, and that update is the next call to return, id is
\* absent from the order marks table.
C18_NoResurrection ==
    [][ \A c \in BagToSet(inflight) :
          ( /\ last.op = "remove_order_mark"
            /\ last.args.quote_id = c.quote_id
            /\ Completes(c) )
          => ~hexists(marks', c.quote_id) ]_vars

\* C19: an update_quote_status whose record has disappeared between its
\* existence check and its read returns or raises NotFoundError: it raises
\* no other error.
C19_UpdateOutcomes ==
    [][ \A c \in BagToSet(inflight) :
          ( /\ c.at = "hget"
            /\ ~hexists(marks, c.quote_id)
            /\ Completes(c) )
          => last'.outcome \in {"ok", "NotFoundError"} ]_vars

====
